---- MODULE Spec2Model ----
(***************************************************************************)
(* A model of the two programs of the repository:                          *)
(*   src/scrape.js  the ingest run (crawl, extract, chunk, embed, insert)  *)
(*   src/query.js   the query run  (embed, retrieve, assemble, generate)   *)
(* Each program is one async main(); an action is the code between two     *)
(* loop heads or awaited external calls, with the awaited call's outcome   *)
(* (resolve with a value, resolve with an error field, reject) chosen by   *)
(* the environment.  ScrapeSpec and QuerySpec are the two specifications.  *)
(***************************************************************************)
EXTENDS Integers, Sequences, FiniteSets, TLC

(***************************************************************************)
(* Bounds of the model.                                                    *)
(***************************************************************************)
\* links on a language index page
MaxSections == 2
\* article links collected in one language (all sections together)
MaxArticles == 2
\* chunks the splitter returns for one article
MaxChunks == 2

\* src/scrape.js:9
LANGUAGES == <<"en">>

\* The crawled site's article hrefs, and the title the page of each carries
\* (an article page with a container but no title has the empty title).
ArticleUrls == {"a1", "a2"}

TitleOf(url) == IF url = "a1" THEN "Title" ELSE ""

\* JavaScript's null, and a value that is not null
NULL == [null |-> TRUE]

Some(v) == [null |-> FALSE, value |-> v]

Last(s) == s[Len(s)]

\* sequences over S of length 0..n
SeqsUpTo(S, n) == UNION {[1..k -> S] : k \in 0..n}

(***************************************************************************)
(* Strings are sequences of tokens; "" is <<>>.                            *)
(***************************************************************************)
\* Array.prototype.join
RECURSIVE Join(_, _)
Join(parts, sep) ==
    IF parts = <<>> THEN <<>>
    ELSE IF Len(parts) = 1 THEN parts[1]
    ELSE parts[1] \o sep \o Join(Tail(parts), sep)

(***************************************************************************)
(* scrape.js: pure parts                                                   *)
(***************************************************************************)
\* The text of an article page, as the pieces the splitter will cut it into;
\* <<>> is the empty string.
Text(n) == [k \in 1..n |-> <<"piece", k>>]

\* splitTextIntoChunks: the splitter is an external library; the model keeps
\* only that it returns an ordered list of the text's pieces.
splitTextIntoChunks(content) == [k \in 1..Len(content) |-> content[k]]

\* the embedding service's answer for a text
Embedding(text) == <<"vec", text>>

\* title + " " + chunks[i]   (i is the 0-based loop index)
PrefixedChunk(t, cs, i) == <<t, " ", cs[i + 1]>>

\* mutant of ChunkData: the content is the chunk text without the title
ChunkDataUnprefixed(url, t, cs, i, emb) ==
    [content      |-> cs[i + 1],
     source_url   |-> url,
     title        |-> t,
     chunk_index  |-> i,
     total_chunks |-> Len(cs),
     embedding    |-> emb]

\* mutant of ChunkData: chunk_index counts from 1, as the progress log does
ChunkDataOneBased(url, t, cs, i, emb) ==
    [content      |-> PrefixedChunk(t, cs, i),
     source_url   |-> url,
     title        |-> t,
     chunk_index  |-> i + 1,
     total_chunks |-> Len(cs),
     embedding    |-> emb]

\* the chunkData object of processArticle
ChunkData(url, t, cs, i, emb) ==
    [content      |-> PrefixedChunk(t, cs, i),
     source_url   |-> url,
     title        |-> t,
     chunk_index  |-> i,
     total_chunks |-> Len(cs),
     embedding    |-> emb]

\* What fetchPage can return for an article url: null (non-success status or
\* network error, caught and logged) or the page.  A page is what the selectors
\* of getArticleContent find in it.
ArticlePages(url) ==
    {[container |-> FALSE, title |-> TitleOf(url), text |-> Text(0)]}
        \cup {[container |-> TRUE, title |-> TitleOf(url), text |-> Text(n)] :
                 n \in 0..MaxChunks}

FetchArticlePage(url) == {NULL} \cup {Some(p) : p \in ArticlePages(url)}

\* getArticleContent after its fetchPage: null without html or without the
\* article container, else {content, title}
getArticleContent(page) ==
    IF page = NULL THEN NULL
    ELSE IF ~page.value.container THEN NULL
    ELSE Some([content |-> page.value.text, title |-> page.value.title])

\* What fetchPage + cheerio give getSectionLinks: [] when the fetch failed, else
\* the hrefs of the index page, each prefixed with BASE_URL.
SectionLinkLists ==
    {<<>>} \cup {[k \in 1..m |-> <<"BASE_URL", k>>] : m \in 0..MaxSections}

\* What fetchPage + cheerio give getArticleLinks when room more links fit the
\* model's bound: [] when the fetch failed, else the hrefs of the section page.
ArticleLinkLists(room) == {<<>>} \cup SeqsUpTo(ArticleUrls, room)

\* What fetchPage can return for a language's index page: null, or the page,
\* which is the section links its selector finds
FetchIndexPage == {NULL} \cup {Some(l) : l \in SectionLinkLists}

\* getSectionLinks after its fetchPage: if (!html) return []
getSectionLinks(page) == IF page = NULL THEN <<>> ELSE page.value

\* What fetchPage can return for a section page: null, or the page, which is
\* the article links its selector finds
FetchSectionPage(room) == {NULL} \cup {Some(l) : l \in ArticleLinkLists(room)}

\* getArticleLinks after its fetchPage: if (!html) return []
getArticleLinks(page) == IF page = NULL THEN <<>> ELSE page.value

\* storeChunkInSupabase: the inserted rows (data) when the insert succeeds; null
\* when the response carries an error (thrown, caught) or the call rejects
\* (caught)
InsertOutcomes == {"ok", "error", "reject"}

storeChunkInSupabase(row, outcome) ==
    IF outcome = "ok" THEN Some(<<row>>) ELSE NULL

\* mutant of InsertRow: a row with the same source_url and chunk_index is
\* replaced (an upsert)
InsertRowUpsert(tbl, row, outcome) ==
    IF outcome # "ok" THEN tbl
    ELSE IF \E k \in 1..Len(tbl) : /\ tbl[k].source_url = row.source_url
                                    /\ tbl[k].chunk_index = row.chunk_index
    THEN [k \in 1..Len(tbl) |->
            IF /\ tbl[k].source_url = row.source_url
               /\ tbl[k].chunk_index = row.chunk_index
            THEN row ELSE tbl[k]]
    ELSE Append(tbl, row)

\* supabase.from('article_chunks').insert(row): a new row when the insert
\* succeeds, the table as it was when it does not
InsertRow(tbl, row, outcome) == IF outcome = "ok" THEN Append(tbl, row) ELSE tbl

\* const openai = new OpenAI({...}) in getEmbedding: one more handle
NewEmbeddingClient(c) == [c EXCEPT !.embedding = @ + 1]

\* const openai = new OpenAI({...}) in main of query.js: one more handle
NewGenerationClient(c) == [c EXCEPT !.generation = @ + 1]

\* mutant of CountIfStored: every insert counts, stored or not
CountEveryInsert(count, result) == count + 1

\* if (result) storedCount++
CountIfStored(count, result) == IF result # NULL THEN count + 1 ELSE count

\* The client handles a program has constructed once its module is loaded:
\* const supabase = createClient(supabaseUrl, supabaseKey) runs at load in both
\* programs; an OpenAI client is constructed where it is used.
ClientsAtLoad == [embedding |-> 0, store |-> 1, generation |-> 0]

\* a program that is not running has constructed nothing
NoClients == [embedding |-> 0, store |-> 0, generation |-> 0]

VARIABLES
    pc,                 \* position of main()
    error,              \* the rejection reason of main(), "none" while there is none
    stderr,             \* what main().catch(console.error) printed
    langIdx,            \* loop over LANGUAGES (1-based)
    sectionLinks,       \* const sectionLinks
    sectionIdx,         \* loop over sectionLinks (1-based)
    allArticles,        \* const allArticles
    artIdx,             \* let i of the article loop (0-based)
    totalStoredChunks,  \* let totalStoredChunks
    title,              \* processArticle: title
    chunks,             \* processArticle: chunks
    chunkIdx,           \* processArticle: let i of the chunk loop (0-based)
    storedCount,        \* processArticle: let storedCount
    embedding,          \* processArticle: const embedding
    table,              \* the rows of article_chunks
    summary,            \* the per-language summary lines printed
    artLog,             \* history: per processArticle call, what extraction gave
    returned,           \* history: the value each processArticle call returned
    embedLog,           \* history: the embedding calls and how each ended
    handed,             \* history: the records handed to storeChunkInSupabase
    clients,            \* the client handles constructed so far, per service
    callLog,            \* history: the external calls, in the order made
    console,            \* console.log lines of processArticle
    html                \* const html of the last fetchPage call

    \* query.js
VARIABLES
    qpc,                \* position of main()
    argv,               \* process.argv.slice(2)
    userQuery,          \* const userQuery
    queryEmbedding,     \* const queryEmbedding
    results,            \* const results
    context,            \* const context
    messages,           \* const messages
    calls,              \* history: the external calls issued and how each ended
    stdout,             \* console.log lines
    qstderr,            \* console.error lines
    exitStatus,         \* the process's exit status
    qerror,             \* the rejection reason of main(), "none" while there is none
    qclients            \* the client handles constructed so far, per service

qvars == <<qpc, argv, userQuery, queryEmbedding, results, context, messages,
           calls, stdout, qstderr, exitStatus, qerror, qclients>>

svars == <<pc, error, stderr, langIdx, sectionLinks, sectionIdx, allArticles,
           artIdx, totalStoredChunks, title, chunks, chunkIdx, storedCount,
           embedding, table, summary, artLog, returned, embedLog, handed,
           clients, callLog, console, html>>

(***************************************************************************)
(* scrape.js: main() and processArticle()                                  *)
(***************************************************************************)
\* the ingest run starts; the query program is not running
ScrapeInit ==
    /\ pc = "language_loop"
    /\ error = "none"
    /\ stderr = <<>>
    /\ langIdx = 1
    /\ sectionLinks = <<>>
    /\ sectionIdx = 1
    /\ allArticles = <<>>
    /\ artIdx = 0
    /\ totalStoredChunks = 0
    /\ title = ""
    /\ chunks = <<>>
    /\ chunkIdx = 0
    /\ storedCount = 0
    /\ embedding = <<>>
    /\ table = <<>>
    /\ summary = <<>>
    /\ artLog = <<>>
    /\ returned = <<>>
    /\ embedLog = <<>>
    /\ handed = <<>>
    /\ clients = ClientsAtLoad
    /\ callLog = <<>>
    /\ console = <<>>
    /\ html = NULL
    /\ qpc = "idle"
    /\ argv = <<>>
    /\ userQuery = <<>>
    /\ queryEmbedding = <<>>
    /\ results = <<>>
    /\ context = <<>>
    /\ messages = <<>>
    /\ calls = <<>>
    /\ stdout = <<>>
    /\ qstderr = <<>>
    /\ exitStatus = 0
    /\ qerror = "none"
    /\ qclients = NoClients

\* for (const language of LANGUAGES): getSectionLinks(language)
GetSectionLinks ==
    /\ pc = "language_loop"
    /\ langIdx <= Len(LANGUAGES)
    /\ \E page \in FetchIndexPage :
         /\ html' = page
         /\ sectionLinks' = getSectionLinks(page)
    /\ callLog' = Append(callLog, [kind |-> "fetch", page |-> "index",
                                   at |-> langIdx])
    /\ sectionIdx' = 1
    /\ allArticles' = <<>>
    /\ pc' = "section_loop"
    /\ UNCHANGED qvars
    /\ UNCHANGED <<error, stderr, langIdx, artIdx, totalStoredChunks, title,
                   chunks, chunkIdx, storedCount, embedding, table, summary,
                   artLog, returned, embedLog, handed, clients, console>>

\* mutant of GetArticleLinks: a section page that cannot be fetched ends the run
GetArticleLinksFatal ==
    /\ pc = "section_loop"
    /\ sectionIdx <= Len(sectionLinks)
    /\ \E page \in FetchSectionPage(MaxArticles - Len(allArticles)) :
         /\ html' = page
         /\ allArticles' = allArticles \o getArticleLinks(page)
         /\ IF page = NULL
               THEN error' = "FetchError" /\ pc' = "rejected"
               ELSE UNCHANGED <<error, pc>>
    /\ callLog' = Append(callLog, [kind |-> "fetch", page |-> "section",
                                   at |-> sectionIdx])
    /\ sectionIdx' = sectionIdx + 1
    /\ UNCHANGED qvars
    /\ UNCHANGED <<stderr, langIdx, sectionLinks, artIdx,
                   totalStoredChunks, title, chunks, chunkIdx, storedCount,
                   embedding, table, summary, artLog, returned, embedLog, handed,
                   clients, console>>

\* for (const sectionUrl of sectionLinks): getArticleLinks, allArticles.push
GetArticleLinks ==
    /\ pc = "section_loop"
    /\ sectionIdx <= Len(sectionLinks)
    /\ \E page \in FetchSectionPage(MaxArticles - Len(allArticles)) :
         /\ html' = page
         /\ allArticles' = allArticles \o getArticleLinks(page)
    /\ callLog' = Append(callLog, [kind |-> "fetch", page |-> "section",
                                   at |-> sectionIdx])
    /\ sectionIdx' = sectionIdx + 1
    /\ UNCHANGED qvars
    /\ UNCHANGED <<pc, error, stderr, langIdx, sectionLinks, artIdx,
                   totalStoredChunks, title, chunks, chunkIdx, storedCount,
                   embedding, table, summary, artLog, returned, embedLog, handed,
                   clients, console>>

\* the section loop is over: let totalStoredChunks = 0; let i = 0
BeginArticles ==
    /\ pc = "section_loop"
    /\ sectionIdx > Len(sectionLinks)
    /\ totalStoredChunks' = 0
    /\ artIdx' = 0
    /\ pc' = "article_loop"
    /\ UNCHANGED html
    /\ UNCHANGED qvars
    /\ UNCHANGED <<error, stderr, langIdx, sectionLinks, sectionIdx, allArticles,
                   title, chunks, chunkIdx, storedCount, embedding, table,
                   summary, artLog, returned, embedLog, handed, clients, callLog,
                   console>>

\* what extraction gave, for the history
Extraction(page) ==
    IF page = NULL THEN "fetch_null"
    ELSE IF ~page.value.container THEN "no_container"
    ELSE IF page.value.text = <<>> THEN "empty"
    ELSE "content"

\* processArticle up to the chunk loop: const { content, title } = await
\* getArticleContent(articleUrl) throws a TypeError when that is null; empty
\* content returns 0 to main; else the content is split.
ProcessArticle ==
    /\ pc = "article_loop"
    /\ artIdx < Len(allArticles)
    /\ \E page \in FetchArticlePage(allArticles[artIdx + 1]) :
         LET r == getArticleContent(page)
             cs == IF r = NULL THEN <<>> ELSE splitTextIntoChunks(r.value.content)
             entry == [url |-> allArticles[artIdx + 1], got |-> Extraction(page),
                       n |-> Len(cs), chunks |-> cs]
         IN  /\ html' = page
             /\ artLog' = Append(artLog, entry)
             /\ callLog' = Append(callLog, [kind |-> "fetch", page |-> "article",
                                            at |-> artIdx])
             /\ IF r = NULL
                   THEN /\ error' = "TypeError"
                        /\ pc' = "rejected"
                        /\ UNCHANGED <<artIdx, totalStoredChunks, title, chunks,
                                       chunkIdx, storedCount, returned, console>>
                   ELSE IF r.value.content = <<>>
                   THEN /\ returned' = Append(returned, 0)
                        /\ totalStoredChunks' = totalStoredChunks + 0
                        /\ artIdx' = artIdx + 1
                        /\ console' = Append(console,
                                             [line |-> "Failed to get article content",
                                              art |-> artIdx, count |-> 0])
                        /\ UNCHANGED <<pc, error, title, chunks, chunkIdx,
                                       storedCount>>
                   ELSE /\ title' = r.value.title
                        /\ chunks' = splitTextIntoChunks(r.value.content)
                        /\ console' = Append(console,
                                             [line |-> "Split article into chunks",
                                              art |-> artIdx, count |-> Len(cs)])
                        /\ storedCount' = 0
                        /\ chunkIdx' = 0
                        /\ pc' = "chunk_loop"
                        /\ UNCHANGED <<error, artIdx, totalStoredChunks, returned>>
    /\ UNCHANGED qvars
    /\ UNCHANGED <<stderr, langIdx, sectionLinks, sectionIdx, allArticles,
                   embedding, table, summary, embedLog, handed, clients>>

\* for (let i = 0; i < chunks.length; i++): const embedding = await
\* getEmbedding(chunk); getEmbedding constructs an OpenAI client, makes the
\* call, and logs and rethrows a failure; nothing between it and main().catch
\* catches it.
GetEmbedding ==
    /\ pc = "chunk_loop"
    /\ chunkIdx < Len(chunks)
    /\ clients' = NewEmbeddingClient(clients)
    /\ \E ok \in BOOLEAN :
         LET chunk == PrefixedChunk(title, chunks, chunkIdx)
         IN  /\ embedLog' = Append(embedLog, [art |-> artIdx, idx |-> chunkIdx,
                                               input |-> chunk, ok |-> ok,
                                               client |-> clients'.embedding])
             /\ callLog' = Append(callLog, [kind |-> "embed", art |-> artIdx,
                                            idx |-> chunkIdx, ok |-> ok])
             /\ IF ok
                   THEN /\ embedding' = Embedding(chunk)
                        /\ pc' = "store"
                        /\ UNCHANGED error
                   ELSE /\ error' = "EmbeddingError"
                        /\ pc' = "rejected"
                        /\ UNCHANGED embedding
    /\ UNCHANGED html
    /\ UNCHANGED qvars
    /\ UNCHANGED <<stderr, langIdx, sectionLinks, sectionIdx, allArticles, artIdx,
                   totalStoredChunks, title, chunks, chunkIdx, storedCount, table,
                   summary, artLog, returned, handed, console>>

\* mutant of StoreChunk: an insert that failed is issued a second time
StoreChunkRetries ==
    /\ pc = "store"
    /\ \E outcome \in InsertOutcomes, again \in InsertOutcomes :
         LET chunkData == ChunkData(allArticles[artIdx + 1], title, chunks,
                                    chunkIdx, embedding)
             final == IF outcome = "ok" THEN outcome ELSE again
             result == storeChunkInSupabase(chunkData, final)
             call(o) == [kind |-> "insert", art |-> artIdx, idx |-> chunkIdx,
                         ok |-> o = "ok"]
         IN  /\ table' = InsertRow(table, chunkData, final)
             /\ handed' = Append(handed, [art |-> artIdx, rec |-> chunkData,
                                           result |-> result,
                                           client |-> clients.store])
             /\ callLog' = IF outcome = "ok"
                               THEN Append(callLog, call(outcome))
                               ELSE callLog \o <<call(outcome), call(again)>>
             /\ storedCount' = CountIfStored(storedCount, result)
    /\ chunkIdx' = chunkIdx + 1
    /\ pc' = "chunk_loop"
    /\ UNCHANGED html
    /\ UNCHANGED qvars
    /\ UNCHANGED <<error, stderr, langIdx, sectionLinks, sectionIdx, allArticles,
                   artIdx, totalStoredChunks, title, chunks, embedding, summary,
                   artLog, returned, embedLog, clients, console>>

\* chunkData is built; const result = await storeChunkInSupabase(chunkData);
\* if (result) storedCount++; i++
StoreChunk ==
    /\ pc = "store"
    /\ \E outcome \in InsertOutcomes :
         LET chunkData == ChunkData(allArticles[artIdx + 1], title, chunks,
                                    chunkIdx, embedding)
             result == storeChunkInSupabase(chunkData, outcome)
         IN  /\ table' = InsertRow(table, chunkData, outcome)
             /\ handed' = Append(handed, [art |-> artIdx, rec |-> chunkData,
                                           result |-> result,
                                           client |-> clients.store])
             /\ callLog' = Append(callLog, [kind |-> "insert", art |-> artIdx,
                                            idx |-> chunkIdx, ok |-> outcome = "ok"])
             /\ storedCount' = CountIfStored(storedCount, result)
    /\ chunkIdx' = chunkIdx + 1
    /\ pc' = "chunk_loop"
    /\ UNCHANGED html
    /\ UNCHANGED qvars
    /\ UNCHANGED <<error, stderr, langIdx, sectionLinks, sectionIdx, allArticles,
                   artIdx, totalStoredChunks, title, chunks, embedding, summary,
                   artLog, returned, embedLog, clients, console>>

\* the chunk loop is over: the stored count is logged; return storedCount;
\* totalStoredChunks += storedChunks; i++
ProcessArticleReturns ==
    /\ pc = "chunk_loop"
    /\ chunkIdx >= Len(chunks)
    /\ console' = Append(console, [line |-> "Successfully stored chunks",
                                   art |-> artIdx, count |-> storedCount])
    /\ returned' = Append(returned, storedCount)
    /\ totalStoredChunks' = totalStoredChunks + storedCount
    /\ artIdx' = artIdx + 1
    /\ pc' = "article_loop"
    /\ UNCHANGED html
    /\ UNCHANGED qvars
    /\ UNCHANGED <<error, stderr, langIdx, sectionLinks, sectionIdx, allArticles,
                   title, chunks, chunkIdx, storedCount, embedding, table, summary,
                   artLog, embedLog, handed, clients, callLog>>

\* mutant of Summary: the article loop tests i <= allArticles.length, and main
\* waits for an article that is not there
SummaryAwaitsMissingArticle ==
    /\ pc = "article_loop"
    /\ artIdx > Len(allArticles)
    /\ summary' = Append(summary, [language |-> LANGUAGES[langIdx],
                                   articles |-> Len(allArticles),
                                   chunks   |-> totalStoredChunks])
    /\ langIdx' = langIdx + 1
    /\ pc' = "language_loop"
    /\ UNCHANGED html
    /\ UNCHANGED qvars
    /\ UNCHANGED <<error, stderr, sectionLinks, sectionIdx, allArticles, artIdx,
                   totalStoredChunks, title, chunks, chunkIdx, storedCount,
                   embedding, table, artLog, returned, embedLog, handed, clients,
                   callLog, console>>

\* the article loop is over: the summary of the language is printed
Summary ==
    /\ pc = "article_loop"
    /\ artIdx >= Len(allArticles)
    /\ summary' = Append(summary, [language |-> LANGUAGES[langIdx],
                                   articles |-> Len(allArticles),
                                   chunks   |-> totalStoredChunks])
    /\ langIdx' = langIdx + 1
    /\ pc' = "language_loop"
    /\ UNCHANGED html
    /\ UNCHANGED qvars
    /\ UNCHANGED <<error, stderr, sectionLinks, sectionIdx, allArticles, artIdx,
                   totalStoredChunks, title, chunks, chunkIdx, storedCount,
                   embedding, table, artLog, returned, embedLog, handed, clients,
                   callLog, console>>

\* the language loop is over: main() resolves
MainReturns ==
    /\ pc = "language_loop"
    /\ langIdx > Len(LANGUAGES)
    /\ pc' = "done"
    /\ UNCHANGED html
    /\ UNCHANGED qvars
    /\ UNCHANGED <<error, stderr, langIdx, sectionLinks, sectionIdx, allArticles,
                   artIdx, totalStoredChunks, title, chunks, chunkIdx, storedCount,
                   embedding, table, summary, artLog, returned, embedLog, handed,
                   clients, callLog, console>>

\* main().catch(console.error)
MainCatch ==
    /\ pc = "rejected"
    /\ stderr' = Append(stderr, error)
    /\ pc' = "reported"
    /\ UNCHANGED html
    /\ UNCHANGED qvars
    /\ UNCHANGED <<error, langIdx, sectionLinks, sectionIdx, allArticles, artIdx,
                   totalStoredChunks, title, chunks, chunkIdx, storedCount,
                   embedding, table, summary, artLog, returned, embedLog, handed,
                   clients, callLog, console>>

ScrapeNext ==
    \/ GetSectionLinks
    \/ GetArticleLinks
    \/ BeginArticles
    \/ ProcessArticle
    \/ GetEmbedding
    \/ StoreChunk
    \/ ProcessArticleReturns
    \/ Summary
    \/ MainReturns
    \/ MainCatch

(***************************************************************************)
(* query.js                                                                *)
(***************************************************************************)
\* command-line words
MaxArgs == 2
\* rows the store returns for one query
MaxResults == 2

\* const topK = 5
topK == 5

\* a positional argument: a string, possibly empty
Args == {<<>>, <<"refund">>, <<"policy">>}

\* rows of article_chunks the store can return
Rows ==
    {[title |-> "Refunds", content |-> "Refunds We refund within 30 days",
      chunk_index |-> 0],
     [title |-> "Billing", content |-> "Billing Invoices are monthly",
      chunk_index |-> 1]}

Min(a, b) == IF a <= b THEN a ELSE b

\* What awaiting supabase.rpc('match_article_chunks', ...) can give: {data, error}
\* with at most match_count rows, {data: null, error}, or a rejection.
RpcResponses(match_count) ==
    {[kind |-> "data", data |-> d] : d \in SeqsUpTo(Rows, Min(MaxResults, match_count))}
        \cup {[kind |-> "error", data |-> <<>>], [kind |-> "reject", data |-> <<>>]}

\* querySupabase on a response that did not reject: [] on error, else data
querySupabase(resp) == IF resp.kind = "error" THEN <<>> ELSE resp.data

\* mutant of ContextBlock: the label is the 0-based index
ContextBlockZeroBased(row, i) ==
    <<"Context ", ToString(i), " (from: ", row.title, "):\n", row.content>>

\* `Context ${i + 1} (from: ${row.title}):\n${row.content}`, i 0-based
ContextBlock(row, i) ==
    <<"Context ", ToString(i + 1), " (from: ", row.title, "):\n", row.content>>

\* results.map((row, i) => ...).join('\n\n')
AssembleContext(rs) ==
    Join([k \in 1..Len(rs) |-> ContextBlock(rs[k], k - 1)], <<"\n\n">>)

\* const messages = [system, user]
BuildMessages(ctx, query) ==
    <<[role |-> "system", content |-> <<"systemPrompt">>],
      [role |-> "user",
       content |-> <<"Context:\n">> \o ctx \o <<"\n\nUser question: ">> \o query]>>

Guidance == "Please provide a query as a command line argument."

\* one query invocation starts; the ingest program is not running
QueryInit ==
    /\ qpc = "start"
    /\ argv \in SeqsUpTo(Args, MaxArgs)
    /\ userQuery = <<>>
    /\ queryEmbedding = <<>>
    /\ results = <<>>
    /\ context = <<>>
    /\ messages = <<>>
    /\ calls = <<>>
    /\ stdout = <<>>
    /\ qstderr = <<>>
    /\ exitStatus = 0
    /\ qerror = "none"
    /\ qclients = ClientsAtLoad
    /\ pc = "idle"
    /\ error = "none"
    /\ stderr = <<>>
    /\ langIdx = 1
    /\ sectionLinks = <<>>
    /\ sectionIdx = 1
    /\ allArticles = <<>>
    /\ artIdx = 0
    /\ totalStoredChunks = 0
    /\ title = ""
    /\ chunks = <<>>
    /\ chunkIdx = 0
    /\ storedCount = 0
    /\ embedding = <<>>
    /\ table = <<>>
    /\ summary = <<>>
    /\ artLog = <<>>
    /\ returned = <<>>
    /\ embedLog = <<>>
    /\ handed = <<>>
    /\ clients = NoClients
    /\ callLog = <<>>
    /\ console = <<>>
    /\ html = NULL

\* mutant of QMain: the empty query is reported, and main goes on
QMainGoesOn ==
    /\ qpc = "start"
    /\ LET q == Join(argv, <<" ">>)
       IN  /\ userQuery' = q
           /\ qstderr' = IF q = <<>> THEN Append(qstderr, Guidance) ELSE qstderr
           /\ stdout' = Append(stdout, "User query:")
           /\ qpc' = "embed"
    /\ UNCHANGED <<argv, queryEmbedding, results, context, messages, calls, qerror,
                   exitStatus>>
    /\ UNCHANGED qclients
    /\ UNCHANGED svars

\* main() up to the first await: the query is the joined arguments; an empty one
\* is reported and the process exits with status 1
QMain ==
    /\ qpc = "start"
    /\ LET q == Join(argv, <<" ">>)
       IN  /\ userQuery' = q
           /\ IF q = <<>>
                THEN /\ qstderr' = Append(qstderr, Guidance)
                     /\ exitStatus' = 1
                     /\ qpc' = "exited"
                     /\ UNCHANGED stdout
                ELSE /\ stdout' = Append(stdout, "User query:")
                     /\ qpc' = "embed"
                     /\ UNCHANGED <<qstderr, exitStatus>>
    /\ UNCHANGED <<argv, queryEmbedding, results, context, messages, calls, qerror>>
    /\ UNCHANGED qclients
    /\ UNCHANGED svars

\* mutant of QGetEmbedding: getEmbedding logs a failure and returns nothing,
\* and main goes on to the store query
QGetEmbeddingSwallows ==
    /\ qpc = "embed"
    /\ qclients' = NewEmbeddingClient(qclients)
    /\ \E ok \in BOOLEAN :
         /\ calls' = Append(calls, [svc |-> "embeddings", input |-> userQuery,
                                    ok |-> ok,
                                    client |-> qclients'.embedding])
         /\ queryEmbedding' = IF ok THEN Embedding(userQuery) ELSE <<>>
         /\ qstderr' = IF ok THEN qstderr
                       ELSE Append(qstderr, "Error getting embedding:")
         /\ qpc' = "rpc"
    /\ UNCHANGED <<argv, userQuery, results, context, messages, stdout, exitStatus,
                   qerror>>
    /\ UNCHANGED svars

\* const queryEmbedding = await getEmbedding(userQuery): getEmbedding logs and
\* rethrows a failure
QGetEmbedding ==
    /\ qpc = "embed"
    /\ qclients' = NewEmbeddingClient(qclients)
    /\ \E ok \in BOOLEAN :
         /\ calls' = Append(calls, [svc |-> "embeddings", input |-> userQuery,
                                    ok |-> ok,
                                    client |-> qclients'.embedding])
         /\ IF ok
              THEN /\ queryEmbedding' = Embedding(userQuery)
                   /\ qpc' = "rpc"
                   /\ UNCHANGED <<qstderr, qerror>>
              ELSE /\ qstderr' = Append(qstderr, "Error getting embedding:")
                   /\ qerror' = "EmbeddingError"
                   /\ qpc' = "rejected"
                   /\ UNCHANGED queryEmbedding
    /\ UNCHANGED <<argv, userQuery, results, context, messages, stdout, exitStatus>>
    /\ UNCHANGED svars

\* mutant of AfterRetrieval: main returns when there are no results
AfterRetrievalSkipsEmpty(rs) ==
    /\ results' = rs
    /\ stdout' = Append(stdout, "Results: ")
    /\ context' = AssembleContext(rs)
    /\ messages' = IF rs = <<>> THEN messages
                    ELSE BuildMessages(AssembleContext(rs), userQuery)
    /\ qpc' = IF rs = <<>> THEN "done" ELSE "chat"

\* main() from the results to the generation call: the results are logged, the
\* context and the messages are built, whatever the results are
AfterRetrieval(rs) ==
    /\ results' = rs
    /\ stdout' = Append(stdout, "Results: ")
    /\ context' = AssembleContext(rs)
    /\ messages' = BuildMessages(AssembleContext(rs), userQuery)
    /\ qpc' = "chat"

\* const results = await querySupabase(queryEmbedding, topK), then main() up to
\* the generation call
QuerySupabase ==
    /\ qpc = "rpc"
    /\ \E resp \in RpcResponses(topK) :
         /\ calls' = Append(calls, [svc |-> "rpc", input |-> queryEmbedding,
                                    match_count |-> topK, resp |-> resp,
                                    ok |-> resp.kind = "data",
                                    client |-> qclients.store])
         /\ IF resp.kind = "reject"
              THEN /\ qerror' = "RpcError"
                   /\ qpc' = "rejected"
                   /\ UNCHANGED <<results, context, messages, stdout, qstderr>>
              ELSE /\ qstderr' = IF resp.kind = "error"
                                    THEN Append(qstderr, "Error querying Supabase:")
                                    ELSE qstderr
                   /\ AfterRetrieval(querySupabase(resp))
                   /\ UNCHANGED qerror
    /\ UNCHANGED <<argv, userQuery, queryEmbedding, exitStatus>>
    /\ UNCHANGED qclients
    /\ UNCHANGED svars

\* mutant of QChatCompletion: a failed generation call is made once more
QChatCompletionRetries ==
    /\ qpc = "chat"
    /\ qclients' = NewGenerationClient(qclients)
    /\ \E ok \in BOOLEAN :
         /\ calls' = Append(calls, [svc |-> "chat", input |-> messages,
                                    max_tokens |-> 512, temperature |-> "0.2",
                                    ok |-> ok,
                                    client |-> qclients'.generation])
         /\ IF ok
              THEN /\ stdout' = stdout \o <<"--- AI Response ---", "completion">>
                   /\ qpc' = "done"
                   /\ UNCHANGED qerror
              ELSE IF Len(calls) < 3
              THEN UNCHANGED <<stdout, qpc, qerror>>
              ELSE /\ qerror' = "GenerationError"
                   /\ qpc' = "rejected"
                   /\ UNCHANGED stdout
    /\ UNCHANGED <<argv, userQuery, queryEmbedding, results, context, messages,
                   qstderr, exitStatus>>
    /\ UNCHANGED svars

\* const response = await openai.chat.completions.create(...); the response is
\* printed
QChatCompletion ==
    /\ qpc = "chat"
    /\ qclients' = NewGenerationClient(qclients)
    /\ \E ok \in BOOLEAN :
         /\ calls' = Append(calls, [svc |-> "chat", input |-> messages,
                                    max_tokens |-> 512, temperature |-> "0.2",
                                    ok |-> ok,
                                    client |-> qclients'.generation])
         /\ IF ok
              THEN /\ stdout' = stdout \o <<"--- AI Response ---", "completion">>
                   /\ qpc' = "done"
                   /\ UNCHANGED qerror
              ELSE /\ qerror' = "GenerationError"
                   /\ qpc' = "rejected"
                   /\ UNCHANGED stdout
    /\ UNCHANGED <<argv, userQuery, queryEmbedding, results, context, messages,
                   qstderr, exitStatus>>
    /\ UNCHANGED svars

\* main().catch(console.error)
QMainCatch ==
    /\ qpc = "rejected"
    /\ qstderr' = Append(qstderr, qerror)
    /\ qpc' = "reported"
    /\ UNCHANGED <<argv, userQuery, queryEmbedding, results, context, messages,
                   calls, stdout, exitStatus, qerror>>
    /\ UNCHANGED qclients
    /\ UNCHANGED svars

QueryNext ==
    \/ QMain
    \/ QGetEmbedding
    \/ QuerySupabase
    \/ QChatCompletion
    \/ QMainCatch

vars == <<svars, qvars>>

\* the ingest run
ScrapeSpec == ScrapeInit /\ [][ScrapeNext]_vars

\* the ingest run when every awaited call settles and the continuation of main
\* is then run
ScrapeFairSpec == ScrapeInit /\ [][ScrapeNext]_vars /\ WF_vars(ScrapeNext)

\* one query invocation
QuerySpec == QueryInit /\ [][QueryNext]_vars

(***************************************************************************)
(* Properties of the ingest run (ScrapeSpec)                               *)
(***************************************************************************)
\* the run is over: main() resolved, or its rejection was reported
RunOver == pc \in {"done", "reported"}

\* the records handed to the store for the article at 0-based position a
HandedOf(a) == SelectSeq(handed, LAMBDA h : h.art = a)

\* extraction of the j-th article (1-based) yielded absent
Absent(j) == artLog[j].got \in {"fetch_null", "no_container"}

\* the j-th article (1-based) went through processArticle, which returned to
\* main after every one of its chunks was embedded and handed to the store
Processed(j) ==
    /\ j <= Len(artLog)
    /\ j <= Len(returned)
    /\ \A i \in 0..(artLog[j].n - 1) :
         /\ \E k \in 1..Len(embedLog) :
              embedLog[k].art = j - 1 /\ embedLog[k].idx = i
         /\ \E k \in 1..Len(handed) :
              handed[k].art = j - 1 /\ handed[k].rec.chunk_index = i

\* C1: when the run is over and no embedding call failed in it, every article of
\* the batch was processed, an article whose fetch or extraction yielded absent
\* counting zero stored chunks; an absent article stops no other article.
C1_ArticleIsolation ==
    (RunOver /\ \A k \in 1..Len(embedLog) : embedLog[k].ok)
        => \A j \in 1..Len(allArticles) :
             /\ Processed(j)
             /\ Absent(j) => returned[j] = 0

\* C2: when the run is over and no article was absent in it, every article of
\* the batch had all its chunks embedded and handed to the store, whatever
\* embedding call failed, and main() did not reject: a failed embedding of one
\* chunk stops neither the later chunks nor the later articles.
C2_ChunkIsolation ==
    (RunOver /\ \A j \in 1..Len(artLog) : ~Absent(j))
        => /\ error = "none"
           /\ \A j \in 1..Len(allArticles) : Processed(j)

\* C3: a step in which the insert of chunk i fails (storeChunkInSupabase returns
\* null) raises nothing, adds no row and leaves the stored count as it was, and
\* takes the chunk loop on to chunk i+1, from where processArticle embeds the
\* next chunk or, after the last one, returns its count to main.
C3_InsertFailureIsAValue ==
    [][(pc = "store" /\ Len(handed') = Len(handed) + 1
                     /\ Last(handed').result = NULL)
          => /\ error' = "none"
             /\ storedCount' = storedCount
             /\ table' = table
             /\ chunkIdx' = chunkIdx + 1
             /\ pc' = "chunk_loop"
             /\ returned' = returned]_vars

\* C3 witness: the insert of a chunk failed, the next chunk of the same article
\* was embedded and handed to the store, and processArticle returned to main
\* with a count below the number of chunks.
C3_Witness ==
    \E k \in 1..Len(handed) :
        /\ handed[k].result = NULL
        /\ k < Len(handed)
        /\ handed[k + 1].art = handed[k].art
        /\ handed[k + 1].rec.chunk_index = handed[k].rec.chunk_index + 1
        /\ handed[k + 1].result # NULL
        /\ Len(returned) = handed[k].art + 1
        /\ returned[handed[k].art + 1] = 1
        /\ pc = "article_loop"

\* C7: the records built for an article that the splitter cut into n chunks
\* carry chunk_index 0, 1, 2, ... in the order built, each with total_chunks = n
\* and 0 <= chunk_index < total_chunks, and they are exactly 0..n-1 once
\* processArticle has returned.
C7_IndexContiguity ==
    \A j \in 1..Len(artLog) :
        LET recs == HandedOf(j - 1)
            n == artLog[j].n
        IN  /\ \A k \in 1..Len(recs) :
                 /\ recs[k].rec.chunk_index = k - 1
                 /\ recs[k].rec.total_chunks = n
                 /\ 0 <= recs[k].rec.chunk_index
                 /\ recs[k].rec.chunk_index < recs[k].rec.total_chunks
            /\ j <= Len(returned) => Len(recs) = n

\* C7 witness: processArticle returned for an article of several chunks, after a
\* record for the last of them was handed to the store.
C7_Witness ==
    \E j \in 1..Len(returned) :
        /\ artLog[j].n >= 2
        /\ Len(HandedOf(j - 1)) = artLog[j].n
        /\ Last(HandedOf(j - 1)).rec.chunk_index = artLog[j].n - 1

(***************************************************************************)
(* Properties of a query invocation (QuerySpec)                            *)
(***************************************************************************)
\* the calls issued to one external service
CallsTo(svc) == SelectSeq(calls, LAMBDA c : c.svc = svc)

\* the AI response was printed
ResponsePrinted == \E k \in 1..Len(stdout) : stdout[k] = "--- AI Response ---"

\* C4: when the argument list is empty or is the one empty string, no external
\* call is ever issued, and once main has run the process has exited with
\* status 1 after printing the guidance message, and printed nothing else.
C4_EmptyQueryRejected ==
    (argv = <<>> \/ argv = << <<>> >>)
        => /\ calls = <<>>
           /\ qpc \in {"start", "exited"}
           /\ qpc = "exited" => /\ exitStatus = 1
                                /\ qstderr = <<Guidance>>
                                /\ stdout = <<>>

\* C4 witness: the process exited on an argument list that joins to the empty
\* string.
C4_Witness == qpc = "exited" /\ argv = << <<>> >> /\ exitStatus = 1

\* the store query returned zero rows without an error
ZeroRows ==
    \E k \in 1..Len(calls) :
        calls[k].svc = "rpc" /\ calls[k].resp.kind = "data"
                             /\ calls[k].resp.data = <<>>

\* C5: after the store query returned zero rows the context is the empty string,
\* and the generation call is the next step or was made exactly once, with the
\* system instruction and a user message of the empty context and the question.
C5_EmptyContextStillGenerates ==
    ZeroRows
        => /\ context = <<>>
           /\ qpc \in {"chat", "done", "rejected", "reported"}
           /\ qpc = "chat" => Len(CallsTo("chat")) = 0
           /\ qpc # "chat"
                => /\ Len(CallsTo("chat")) = 1
                   /\ Last(calls).svc = "chat"
                   /\ Len(Last(calls).input) = 2
                   /\ Last(calls).input[1] =
                        [role |-> "system", content |-> <<"systemPrompt">>]
                   /\ Last(calls).input[2] =
                        [role |-> "user",
                         content |-> <<"Context:\n", "\n\nUser question: ">>
                                        \o userQuery]

\* C5 witness: the generation call was made, and answered, after zero rows.
C5_Witness == ZeroRows /\ qpc = "done" /\ ResponsePrinted

\* C6: however the store query fails, the results are the empty sequence, main()
\* does not reject because of it, and the pipeline goes on to the context and
\* the generation call.
C6_StoreReadFailureNeverPropagates ==
    \A k \in 1..Len(calls) :
        (calls[k].svc = "rpc" /\ calls[k].resp.kind # "data")
            => /\ results = <<>>
               /\ context = <<>>
               /\ qerror # "RpcError"
               /\ qpc = "chat" \/ Len(CallsTo("chat")) = 1

\* C8: after the store returned the rows r1..rm, the context is m blocks in that
\* order, block i being "Context i (from: <title of ri>):", a newline and the
\* content of ri, with one blank line between two blocks and nothing else.
C8_ContextPreservesOrder ==
    \A k \in 1..Len(calls) :
        (calls[k].svc = "rpc" /\ calls[k].resp.kind = "data")
            => LET r == calls[k].resp.data
                   m == Len(r)
               IN  /\ Len(context) = IF m = 0 THEN 0 ELSE 7 * m - 1
                   /\ \A i \in 1..m :
                        LET at == 7 * (i - 1)
                        IN  /\ context[at + 1] = "Context "
                            /\ context[at + 2] = ToString(i)
                            /\ context[at + 3] = " (from: "
                            /\ context[at + 4] = r[i].title
                            /\ context[at + 5] = "):\n"
                            /\ context[at + 6] = r[i].content
                            /\ i < m => context[at + 7] = "\n\n"

\* C8 witness: the store returned two different rows and the context was built.
C8_Witness ==
    \E k \in 1..Len(calls) :
        /\ calls[k].svc = "rpc"
        /\ calls[k].resp.kind = "data"
        /\ Len(calls[k].resp.data) = 2
        /\ calls[k].resp.data[1].title = "Billing"
        /\ calls[k].resp.data[2].title = "Refunds"
        /\ Len(context) = 13
        /\ qpc = "chat"

\* the embedding call of the invocation failed
EmbeddingFailed ==
    \E k \in 1..Len(calls) : calls[k].svc = "embeddings" /\ ~calls[k].ok

\* C9: an invocation issues at most one embedding call, and exactly one once a
\* non-empty query is past its embedding step; when that call fails, no store
\* query and no generation call is issued, no AI response is printed and main()
\* rejects.
C9_EmbeddingFailureAborts ==
    /\ Len(CallsTo("embeddings")) <= 1
    /\ qpc \in {"rpc", "chat", "done", "rejected", "reported"}
         => Len(CallsTo("embeddings")) = 1
    /\ EmbeddingFailed
         => /\ Len(CallsTo("rpc")) = 0
            /\ Len(CallsTo("chat")) = 0
            /\ ~ResponsePrinted
            /\ qpc \in {"rejected", "reported"}
            /\ qerror = "EmbeddingError"

\* C9 witness: the embedding call failed and the rejection was reported.
C9_Witness == EmbeddingFailed /\ qpc = "reported" /\ Len(calls) = 1

\* the generation call of the invocation failed
GenerationFailed ==
    \E k \in 1..Len(calls) : calls[k].svc = "chat" /\ ~calls[k].ok

\* C10: an invocation issues at most one generation call; when it fails it is
\* the last call of the invocation, main() rejects with that failure, which
\* main().catch reports, and no AI response is printed.
C10_GenerationFailurePropagates ==
    /\ Len(CallsTo("chat")) <= 1
    /\ GenerationFailed
         => /\ ~Last(calls).ok
            /\ Last(calls).svc = "chat"
            /\ Len(calls) = 3
            /\ qerror = "GenerationError"
            /\ qpc \in {"rejected", "reported"}
            /\ qpc = "rejected" => ENABLED QMainCatch
            /\ qpc = "reported" => Last(qstderr) = "GenerationError"
            /\ ~ResponsePrinted

\* C10 witness: the generation call failed and the failure was reported.
C10_Witness ==
    GenerationFailed /\ qpc = "reported" /\ Last(qstderr) = "GenerationError"

(***************************************************************************)
(* Client handles (scrape.js:14, 19-22; query.js:8, 13-16, 81-84)          *)
(***************************************************************************)
\* C11: within one ingest process at most one embedding client handle is ever
\* constructed and every embedding call goes through that first handle; the
\* store client likewise is one handle, used by every insert.
C11_SingleClientHandle ==
    /\ clients.embedding <= 1
    /\ \A k \in 1..Len(embedLog) : embedLog[k].client = 1
    /\ clients.store <= 1
    /\ \A k \in 1..Len(handed) : handed[k].client = 1
    /\ clients.generation <= 1

(***************************************************************************)
(* Order of the external calls of the ingest run (scrape.js:160-182,       *)
(* 209-214).  callLog holds one entry per awaited call, in the order the   *)
(* calls were made; a call is made only after the one before it settled.   *)
(***************************************************************************)
\* the calls made for chunks: embedding and insert calls
IsChunkCall(c) == c.kind \in {"embed", "insert"}

\* the fetch of the article at 0-based position a
IsArticleFetch(c, a) == c.kind = "fetch" /\ c.page = "article" /\ c.at = a

\* the position of a chunk call in the order article, chunk, embed-then-insert
Before(c, d) ==
    \/ c.art < d.art
    \/ c.art = d.art /\ c.idx < d.idx
    \/ c.art = d.art /\ c.idx = d.idx /\ c.kind = "embed" /\ d.kind = "insert"

\* C12: the calls of an ingest run are made one after the other: the insert of
\* chunk i directly follows the completed embedding call of chunk i; the
\* embedding call of chunk i+1 directly follows the insert of chunk i, and that
\* of chunk 0 the fetch of its article; every call for article a is made after
\* the fetch of a and before the fetch of a+1; no chunk is embedded twice or
\* inserted twice.
C12_StrictlySequential ==
    /\ \A k \in 1..Len(callLog) :
         callLog[k].kind = "insert"
            => /\ k > 1
               /\ callLog[k - 1] = [kind |-> "embed", art |-> callLog[k].art,
                                    idx |-> callLog[k].idx, ok |-> TRUE]
    /\ \A k \in 1..Len(callLog) :
         callLog[k].kind = "embed"
            => /\ k > 1
               /\ IF callLog[k].idx = 0
                     THEN IsArticleFetch(callLog[k - 1], callLog[k].art)
                     ELSE /\ callLog[k - 1].kind = "insert"
                          /\ callLog[k - 1].art = callLog[k].art
                          /\ callLog[k - 1].idx = callLog[k].idx - 1
    /\ \A k \in 1..Len(callLog), m \in 1..Len(callLog) :
         /\ (k < m /\ IsChunkCall(callLog[k]) /\ IsChunkCall(callLog[m]))
               => Before(callLog[k], callLog[m])
         /\ (IsChunkCall(callLog[k]) /\ callLog[m].kind = "fetch")
               => IF callLog[m].page = "article" /\ callLog[m].at > callLog[k].art
                     THEN k < m
                     ELSE m < k

\* C12 witness: a run ended normally after an article of two chunks and then a
\* second article of at least one chunk went through embedding and insert, one
\* insert having failed.
C12_Witness ==
    /\ pc = "done"
    /\ \E k \in 1..Len(callLog) :
         callLog[k].kind = "insert" /\ callLog[k].art = 0 /\ callLog[k].idx = 1
    /\ \E k \in 1..Len(callLog) :
         callLog[k].kind = "insert" /\ callLog[k].art = 1 /\ ~callLog[k].ok

(***************************************************************************)
(* The record of a chunk (scrape.js:161-180)                               *)
(***************************************************************************)
\* C13: every record handed to the store for chunk i of an article has as
\* content the article's title, one space and the i-th chunk of that article,
\* and as embedding the vector the embedding service returned for exactly that
\* content, in the successful embedding call made for that chunk.
C13_ContentAndEmbeddingAgree ==
    \A k \in 1..Len(handed) :
        LET h == handed[k]
            a == h.art
            i == h.rec.chunk_index
        IN  /\ h.rec.title = TitleOf(artLog[a + 1].url)
            /\ h.rec.content = <<h.rec.title, " ", artLog[a + 1].chunks[i + 1]>>
            /\ h.rec.embedding = Embedding(h.rec.content)
            /\ \E e \in 1..Len(embedLog) :
                 /\ embedLog[e].art = a
                 /\ embedLog[e].idx = i
                 /\ embedLog[e].ok
                 /\ embedLog[e].input = h.rec.content

\* C13 witness: the second chunk of a titled article and a chunk of an untitled
\* article were both handed to the store and stored.
C13_Witness ==
    /\ \E k \in 1..Len(handed) :
         /\ handed[k].rec.chunk_index = 1
         /\ handed[k].rec.title = "Title"
         /\ handed[k].result # NULL
    /\ \E k \in 1..Len(handed) :
         handed[k].rec.title = "" /\ handed[k].result # NULL

(***************************************************************************)
(* Counting (scrape.js:157-185, 209-218)                                   *)
(***************************************************************************)
\* the sum of a sequence of numbers
RECURSIVE Sum(_)
Sum(s) == IF s = <<>> THEN 0 ELSE s[1] + Sum(Tail(s))

\* the inserts of the article at 0-based position a that returned a record
StoredOf(a) == SelectSeq(HandedOf(a), LAMBDA h : h.result # NULL)

\* the console lines of processArticle for the article at 0-based position a
ConsoleOf(a) == SelectSeq(console, LAMBDA l : l.art = a)

\* C14: inside the chunk loop the stored count of the current article is the
\* number of its inserts that returned a record and lies between 0 and the
\* number of chunks attempted, itself at most the number of chunks; the count
\* processArticle returns for an article, and reports with the number of
\* chunks it was split into, is that article's number of returned records;
\* the running total and the total of the summary are the sum of the counts
\* of the articles processed.
C14_Counting ==
    /\ pc \in {"chunk_loop", "store"}
         => /\ storedCount = Len(StoredOf(artIdx))
            /\ Len(HandedOf(artIdx)) = chunkIdx
            /\ 0 <= storedCount
            /\ storedCount <= chunkIdx
            /\ chunkIdx <= Len(chunks)
    /\ \A j \in 1..Len(returned) :
         /\ returned[j] = Len(StoredOf(j - 1))
         /\ 0 <= returned[j]
         /\ returned[j] <= artLog[j].n
         /\ Len(HandedOf(j - 1)) = artLog[j].n
         /\ artLog[j].got = "content"
              => ConsoleOf(j - 1) =
                    <<[line |-> "Split article into chunks", art |-> j - 1,
                       count |-> artLog[j].n],
                      [line |-> "Successfully stored chunks", art |-> j - 1,
                       count |-> returned[j]]>>
    /\ pc \in {"article_loop", "chunk_loop", "store"}
         => totalStoredChunks = Sum(returned)
    /\ \A l \in 1..Len(summary) :
         /\ summary[l].chunks = Sum(returned)
         /\ summary[l].articles = Len(returned)

\* C14 witness: the summary was printed after two articles, one that stored
\* fewer chunks than were attempted and one that stored at least one chunk.
C14_Witness ==
    /\ Len(summary) = 1
    /\ Len(returned) = 2
    /\ \E j \in 1..2 : returned[j] < artLog[j].n /\ returned[j] > 0
    /\ summary[1].chunks > returned[1]

(***************************************************************************)
(* Crawl failures (scrape.js:59-106, 194-205)                              *)
(***************************************************************************)
\* C15: a fetch of an index or section page that failed gives null, which
\* becomes an empty link list, and raises nothing: a failed index page leaves
\* the language without sections, a failed section page adds no article and
\* the crawl moves to the next section; a page that loaded adds exactly the
\* links found on it, every section is fetched before the articles begin, the
\* articles are processed in the order found, a run that returns normally has
\* processed all of them, and a fatal error arises only inside the processing
\* of an article.
C15_CrawlFailuresSkipped ==
    [][/\ (pc = "language_loop" /\ callLog' # callLog)
            => /\ error' = "none"
               /\ pc' = "section_loop"
               /\ sectionLinks' = (IF html' = NULL THEN <<>> ELSE html'.value)
       /\ (pc = "section_loop" /\ callLog' # callLog)
            => /\ error' = "none"
               /\ pc' = "section_loop"
               /\ sectionIdx' = sectionIdx + 1
               /\ allArticles' = allArticles \o
                                   (IF html' = NULL THEN <<>> ELSE html'.value)
       /\ (pc = "section_loop" /\ pc' = "article_loop")
            => /\ sectionIdx = Len(sectionLinks) + 1
               /\ allArticles' = allArticles
       /\ \A j \in 1..Len(artLog') : artLog'[j].url = allArticles'[j]
       /\ pc' = "done" => \A j \in 1..Len(allArticles') : Processed(j)'
       /\ error' # "none"
            => /\ Len(artLog') >= 1
               /\ error' \in {"TypeError", "EmbeddingError"}]_vars

\* C15 witness: the fetch of the first of two section pages failed and the
\* crawl stands, without error, before the fetch of the second.
C15_Witness ==
    /\ pc = "section_loop"
    /\ html = NULL
    /\ Len(sectionLinks) = 2
    /\ sectionIdx = 2
    /\ error = "none"
    /\ ENABLED GetArticleLinks

(***************************************************************************)
(* The table under ingestion (scrape.js:37-57, 198-214)                    *)
(***************************************************************************)
\* the rows of tbl for one source_url and chunk_index
RowsFor(tbl, url, i) ==
    SelectSeq(tbl, LAMBDA r : r.source_url = url /\ r.chunk_index = i)

\* the successful inserts of a run for one source_url and chunk_index
StoredFor(url, i) ==
    SelectSeq(handed, LAMBDA h : /\ h.result # NULL
                                 /\ h.rec.source_url = url
                                 /\ h.rec.chunk_index = i)

\* C16: no step of the ingest run changes or removes a row of the table: the
\* rows before a step are a prefix of the rows after it; a successful insert
\* adds exactly the one record handed over, at the end, and an insert that
\* failed and every other step leave the table as it was; no row is merged
\* with an earlier one, so there are as many rows for a source_url and
\* chunk_index as there were successful inserts for them.
C16_AppendOnly ==
    [][/\ Len(table') >= Len(table)
       /\ SubSeq(table', 1, Len(table)) = table
       /\ IF Len(handed') = Len(handed) + 1 /\ Last(handed').result # NULL
             THEN table' = Append(table, Last(handed').rec)
             ELSE table' = table
       /\ \A url \in ArticleUrls, i \in 0..(MaxChunks - 1) :
            Len(RowsFor(table', url, i)) = Len(StoredFor(url, i)')]_vars

\* C16 witness: the same url was listed twice, both times every chunk was
\* stored, and the table holds two rows for each of its two chunk indices.
C16_Witness ==
    /\ pc = "done"
    /\ allArticles = <<"a1", "a1">>
    /\ returned = <<2, 2>>
    /\ Len(table) = 4
    /\ Len(RowsFor(table, "a1", 0)) = 2
    /\ Len(RowsFor(table, "a1", 1)) = 2

(***************************************************************************)
(* Termination (scrape.js:188-222), under ScrapeFairSpec                   *)
(***************************************************************************)
\* main() resolved after the summary of every language, or rejected and the
\* rejection was printed by main().catch
Terminated ==
    \/ pc = "done" /\ error = "none" /\ Len(summary) = Len(LANGUAGES)
    \/ pc = "reported" /\ error # "none" /\ stderr = <<error>>

\* no call of the run was made twice
NoRepeatedCall ==
    \A k \in 1..Len(callLog), m \in 1..Len(callLog) :
        k # m => callLog[k] # callLog[m]

\* C17: when every awaited call settles, an ingest run eventually terminates,
\* either with the summary of every language printed or with a fatal error
\* reported; once terminated it takes no further step, before that it always
\* has a step to take, and it never makes the same call twice.
C17_Termination ==
    /\ <>Terminated
    /\ [](RunOver => (Terminated /\ ~ENABLED ScrapeNext))
    /\ [](~RunOver => ENABLED ScrapeNext)
    /\ []NoRepeatedCall

\* C17 witness: a run over two articles, the first without chunks to store,
\* terminated with its summary printed.
C17_Witness ==
    /\ Terminated
    /\ pc = "done"
    /\ Len(allArticles) = 2
    /\ returned[1] = 0
    /\ Len(callLog) >= 5

====
